---- MODULE Spec2Model ----
(***************************************************************************)
(* The allocator subsystem of hello-c:                                     *)
(*   - MemoryPool (arena), StackAllocator and BlockAllocator of            *)
(*     sandbox/05-advanced-programming/01-memory-management/               *)
(*     04-custom-memory-management/main.c                                  *)
(*   - the tracking memory manager of                                      *)
(*     sandbox/practices/007-memory-manager/main.c                         *)
(* Each component is a state machine of its own; a specification per       *)
(* component drives that component and leaves the others at rest.          *)
(***************************************************************************)
EXTENDS Integers, Sequences, FiniteSets, TLC

VARIABLES
    \* MemoryPool, the calls made on it since pool_init / pool_reset, and
    \* which of the two came last
    pool_used, pool_calls, pool_epoch,
    \* StackAllocator, the markers its caller saved, the last call
    stack_state, stack_buffer, stack_capacity, stack_used, stack_markers,
    stack_last,
    \* BlockAllocator: the struct, the memory of its chunks, the chunks the
    \* system allocator has handed out, the blocks its caller holds, and the
    \* calls made since block_allocator_init
    blk_state, blk, blk_mem, blk_sys, blk_held, blk_hist, blk_last,
    \* tracking memory manager: g_memory_manager, the headers in memory, the
    \* blocks the system allocator has handed out, the pointers its caller
    \* holds and the ones freed since the last memory_alloc, what the last
    \* call printed or returned, the calls made since memory_manager_init,
    \* the last call, and whether the execution has left defined behaviour
    mm_state, mm, mm_mem, mm_sys, mm_live, mm_stale, mm_out, mm_hist,
    mm_last, mm_ub

poolVars == <<pool_used, pool_calls, pool_epoch>>
stackVars == <<stack_state, stack_buffer, stack_capacity, stack_used,
               stack_markers, stack_last>>
blockVars == <<blk_state, blk, blk_mem, blk_sys, blk_held, blk_hist, blk_last>>
trackVars == <<mm_state, mm, mm_mem, mm_sys, mm_live, mm_stale, mm_out,
               mm_hist, mm_last, mm_ub>>
vars == <<poolVars, stackVars, blockVars, trackVars>>

(***************************************************************************)
(* Machine arithmetic: size_t, scaled to SIZE_BITS bits.                   *)
(***************************************************************************)
SIZE_BITS == 16
SIZE_MAX == 2^SIZE_BITS - 1
NULL == 0

\* a value converted to size_t
SizeT(x) == x % (SIZE_MAX + 1)

\* (size + 7) & ~7 in size_t arithmetic
AlignUp8(size) ==
    LET s == SizeT(size + 7) IN s - (s % 8)

\* the next multiple of 8 at or above size, as a number
RoundUp8(size) == ((size + 7) \div 8) * 8

RECURSIVE SumOver(_, _)
SumOver(f, n) == IF n = 0 THEN 0 ELSE f[n] + SumOver(f, n - 1)

(***************************************************************************)
(* MemoryPool                                                              *)
(***************************************************************************)
POOL_SIZE == 1024

\* calls recorded per pool_init / pool_reset
MaxPoolCalls == 4

\* sizes requested from the pool: none, unaligned, aligned, the whole
\* buffer, one byte more than the buffer
PoolSizes == {0, 1, 8, 20, 500, 1016, 1024, 1025}

\* result of pool_alloc on a pool with `used` bytes taken: the pointer as an
\* offset into buffer (null: no pointer) and the new value of used
pool_alloc_wrong_bound(used, size) ==
    LET aligned_size == AlignUp8(size) IN
    IF SizeT(used + aligned_size) >= POOL_SIZE
    THEN [null |-> TRUE, off |-> 0, used |-> used]
    ELSE [null |-> FALSE, off |-> used, used |-> SizeT(used + aligned_size)]

pool_alloc_unaligned(used, size) ==
    IF SizeT(used + size) > POOL_SIZE
    THEN [null |-> TRUE, off |-> 0, used |-> used]
    ELSE [null |-> FALSE, off |-> used, used |-> SizeT(used + size)]

pool_alloc_unchecked(used, size) ==
    [null |-> FALSE, off |-> used, used |-> SizeT(used + AlignUp8(size))]

pool_alloc_result(used, size) ==
    LET aligned_size == AlignUp8(size) IN
    IF SizeT(used + aligned_size) > POOL_SIZE
    THEN [null |-> TRUE, off |-> 0, used |-> used]
    ELSE [null |-> FALSE, off |-> used, used |-> SizeT(used + aligned_size)]

pool_init ==
    /\ pool_used' = 0
    /\ pool_calls' = <<>>
    /\ pool_epoch' = [op |-> "init", dirty |-> FALSE]
    /\ UNCHANGED <<stackVars, blockVars, trackVars>>

pool_alloc ==
    /\ Len(pool_calls) < MaxPoolCalls
    /\ \E size \in PoolSizes :
         LET r == pool_alloc_result(pool_used, size) IN
         /\ pool_used' = r.used
         /\ pool_calls' = Append(pool_calls,
                [size |-> size, before |-> pool_used, null |-> r.null,
                 off |-> r.off, after |-> r.used])
    /\ UNCHANGED pool_epoch
    /\ UNCHANGED <<stackVars, blockVars, trackVars>>

\* dirty: bytes were in use when the pool was reset
pool_reset_keeps_used ==
    /\ pool_used' = pool_used
    /\ pool_calls' = <<>>
    /\ pool_epoch' = [op |-> "reset", dirty |-> pool_used > 0]
    /\ UNCHANGED <<stackVars, blockVars, trackVars>>

pool_reset ==
    /\ pool_used' = 0
    /\ pool_calls' = <<>>
    /\ pool_epoch' = [op |-> "reset", dirty |-> pool_used > 0]
    /\ UNCHANGED <<stackVars, blockVars, trackVars>>

PoolInit ==
    /\ pool_used = 0
    /\ pool_calls = <<>>
    /\ pool_epoch = [op |-> "init", dirty |-> FALSE]

(***************************************************************************)
(* StackAllocator                                                          *)
(***************************************************************************)
\* address malloc gives the stack's buffer
STACK_BUFFER == 4096

\* capacities passed to stack_allocator_init
StackCapacities == {0, 16, 24, 64}

\* sizes requested from the stack
StackSizes == {0, 1, 8, 9, 16, 40, 64, 65}

\* markers the caller keeps at a time
MaxMarkers == 2

NoMarker == [set |-> FALSE, value |-> 0, clean |-> FALSE]

\* the region [off, end) the last successful stack_alloc returned
NoRegion == [off |-> 0, end |-> 0]

stack_alloc_wrong_bound(used, capacity, size) ==
    LET aligned_size == AlignUp8(size) IN
    IF SizeT(used + aligned_size) >= capacity
    THEN [null |-> TRUE, off |-> 0, used |-> used]
    ELSE [null |-> FALSE, off |-> used, used |-> SizeT(used + aligned_size)]

stack_alloc_result(used, capacity, size) ==
    LET aligned_size == AlignUp8(size) IN
    IF SizeT(used + aligned_size) > capacity
    THEN [null |-> TRUE, off |-> 0, used |-> used]
    ELSE [null |-> FALSE, off |-> used, used |-> SizeT(used + aligned_size)]

\* value of used after stack_free_to_marker(marker)
stack_free_to_marker_reversed(used, marker) ==
    IF marker >= used THEN marker ELSE used

stack_free_to_marker_always(used, marker) == marker

stack_free_to_marker_resets(used, marker) ==
    IF marker <= used THEN 0 ELSE used

stack_free_to_marker_result(used, marker) ==
    IF marker <= used THEN marker ELSE used

\* the last region after stack_free_to_marker(marker): given up when the
\* stack is rolled back to its start or below
region_after_free(top, used, marker) ==
    IF marker <= used /\ marker <= top.off THEN NoRegion ELSE top

\* malloc(capacity) gives a buffer (ok) or NULL
stack_allocator_init ==
    /\ stack_state \in {"uninit", "destroyed"}
    /\ \E capacity \in StackCapacities, ok \in BOOLEAN :
         IF ok
         THEN /\ stack_buffer' = STACK_BUFFER
              /\ stack_capacity' = capacity
              /\ stack_used' = 0
              /\ stack_state' = "ready"
              /\ stack_last' = [op |-> "init", null |-> FALSE, off |-> 0,
                                marker |-> 0, clean |-> FALSE, before |-> 0,
                                top |-> NoRegion]
         ELSE /\ stack_buffer' = NULL
              /\ stack_state' = "uninit"
              /\ stack_last' = [op |-> "init_failed", null |-> TRUE, off |-> 0,
                                marker |-> 0, clean |-> FALSE, before |-> 0,
                                top |-> NoRegion]
              /\ UNCHANGED <<stack_capacity, stack_used>>
    /\ stack_markers' = [s \in 1..MaxMarkers |-> NoMarker]
    /\ UNCHANGED <<poolVars, blockVars, trackVars>>

stack_alloc ==
    /\ stack_state = "ready"
    /\ \E size \in StackSizes :
         LET r == stack_alloc_result(stack_used, stack_capacity, size) IN
         /\ stack_used' = r.used
         /\ stack_last' = [op |-> "alloc", null |-> r.null, off |-> r.off,
                           marker |-> 0, clean |-> FALSE, before |-> stack_used,
                           top |-> IF r.null THEN stack_last.top
                                   ELSE [off |-> r.off, end |-> r.used]]
    /\ UNCHANGED <<stack_state, stack_buffer, stack_capacity, stack_markers>>
    /\ UNCHANGED <<poolVars, blockVars, trackVars>>

\* the caller saves stack_get_marker() in one of its slots
stack_get_marker ==
    /\ stack_state = "ready"
    /\ \E s \in 1..MaxMarkers :
         stack_markers' = [stack_markers EXCEPT
                             ![s] = [set |-> TRUE, value |-> stack_used,
                                     clean |-> TRUE]]
    /\ stack_last' = [op |-> "get_marker", null |-> FALSE, off |-> 0,
                      marker |-> stack_used, clean |-> FALSE,
                      before |-> stack_used, top |-> stack_last.top]
    /\ UNCHANGED <<stack_state, stack_buffer, stack_capacity, stack_used>>
    /\ UNCHANGED <<poolVars, blockVars, trackVars>>

\* the caller rolls back to a marker it saved; a marker stays `clean` while
\* only stack_alloc calls have followed the stack_get_marker that gave it
stack_free_to_marker ==
    /\ stack_state = "ready"
    /\ \E s \in 1..MaxMarkers :
         /\ stack_markers[s].set
         /\ stack_used' = stack_free_to_marker_result(stack_used,
                                                      stack_markers[s].value)
         /\ stack_last' = [op |-> "free_to_marker", null |-> FALSE, off |-> 0,
                           marker |-> stack_markers[s].value,
                           clean |-> stack_markers[s].clean,
                           before |-> stack_used,
                           top |-> region_after_free(stack_last.top,
                                      stack_used, stack_markers[s].value)]
    /\ stack_markers' = [s \in 1..MaxMarkers |->
                           [stack_markers[s] EXCEPT !.clean = FALSE]]
    /\ UNCHANGED <<stack_state, stack_buffer, stack_capacity>>
    /\ UNCHANGED <<poolVars, blockVars, trackVars>>

\* freed: the pointer passed to free()
stack_allocator_destroy_keeps_buffer ==
    /\ stack_state \in {"ready", "destroyed"}
    /\ stack_buffer' = stack_buffer
    /\ stack_capacity' = 0
    /\ stack_used' = 0
    /\ stack_state' = "destroyed"
    /\ stack_markers' = [s \in 1..MaxMarkers |-> NoMarker]
    /\ stack_last' = [op |-> "destroy", null |-> FALSE, off |-> 0,
                      marker |-> 0, clean |-> FALSE, before |-> stack_used,
                      top |-> NoRegion, freed |-> stack_buffer]
    /\ UNCHANGED <<poolVars, blockVars, trackVars>>

stack_allocator_destroy_call ==
    /\ stack_state \in {"ready", "destroyed"}
    /\ stack_buffer' = NULL
    /\ stack_capacity' = 0
    /\ stack_used' = 0
    /\ stack_state' = "destroyed"
    /\ stack_markers' = [s \in 1..MaxMarkers |-> NoMarker]
    /\ stack_last' = [op |-> "destroy", null |-> FALSE, off |-> 0,
                      marker |-> 0, clean |-> FALSE, before |-> stack_used,
                      top |-> NoRegion, freed |-> stack_buffer]
    /\ UNCHANGED <<poolVars, blockVars, trackVars>>

stack_allocator_destroy ==
    /\ stack_state = "ready"
    /\ stack_allocator_destroy_call

(* calls made with values that stack_get_marker did not give, and calls    *)
(* made after stack_allocator_destroy                                      *)

\* values passed as markers: aligned and not, above the capacity, the largest
AnyMarkers == {0, 1, 8, 12, 24, 64, 65, SIZE_MAX}

\* the pointer stack_alloc returns: &stack->buffer[stack->used], or NULL
stack_alloc_ptr(buffer, r) == IF r.null THEN NULL ELSE buffer + r.off

\* stack_free_to_marker with any size_t value
stack_free_to_value ==
    /\ stack_state = "ready"
    /\ \E marker \in AnyMarkers :
         /\ stack_used' = stack_free_to_marker_result(stack_used, marker)
         /\ stack_last' = [op |-> "free_to_marker", null |-> FALSE, off |-> 0,
                           marker |-> marker, clean |-> FALSE,
                           before |-> stack_used,
                           top |-> region_after_free(stack_last.top,
                                      stack_used, marker)]
    /\ stack_markers' = [s \in 1..MaxMarkers |->
                           [stack_markers[s] EXCEPT !.clean = FALSE]]
    /\ UNCHANGED <<stack_state, stack_buffer, stack_capacity>>
    /\ UNCHANGED <<poolVars, blockVars, trackVars>>

\* stack_alloc on a destroyed stack
stack_alloc_destroyed ==
    /\ stack_state = "destroyed"
    /\ \E size \in StackSizes \cup {SIZE_MAX} :
         LET r == stack_alloc_result(stack_used, stack_capacity, size) IN
         /\ stack_used' = r.used
         /\ stack_last' = [op |-> "alloc", null |-> r.null, off |-> r.off,
                           marker |-> size, clean |-> FALSE,
                           before |-> stack_used, top |-> NoRegion,
                           ptr |-> stack_alloc_ptr(stack_buffer, r)]
    /\ UNCHANGED <<stack_state, stack_buffer, stack_capacity, stack_markers>>
    /\ UNCHANGED <<poolVars, blockVars, trackVars>>

\* stack_free_to_marker on a destroyed stack
stack_free_to_marker_destroyed ==
    /\ stack_state = "destroyed"
    /\ \E marker \in AnyMarkers :
         /\ stack_used' = stack_free_to_marker_result(stack_used, marker)
         /\ stack_last' = [op |-> "free_to_marker", null |-> FALSE, off |-> 0,
                           marker |-> marker, clean |-> FALSE,
                           before |-> stack_used, top |-> NoRegion]
    /\ UNCHANGED <<stack_state, stack_buffer, stack_capacity, stack_markers>>
    /\ UNCHANGED <<poolVars, blockVars, trackVars>>

\* stack_allocator_destroy on a destroyed stack
stack_allocator_destroy_again ==
    /\ stack_state = "destroyed"
    /\ stack_allocator_destroy_call

StackInit ==
    /\ stack_state = "uninit"
    /\ stack_buffer = NULL
    /\ stack_capacity = 0
    /\ stack_used = 0
    /\ stack_markers = [s \in 1..MaxMarkers |-> NoMarker]
    /\ stack_last = [op |-> "none", null |-> FALSE, off |-> 0, marker |-> 0,
                     clean |-> FALSE, before |-> 0, top |-> NoRegion]

(***************************************************************************)
(* A MemoryPool and a StackAllocator of capacity POOL_SIZE, given the same *)
(* requests                                                                *)
(***************************************************************************)
\* sizes requested from both, up to the largest size_t
LockstepSizes == PoolSizes \cup {SIZE_MAX - 8, SIZE_MAX - 3, SIZE_MAX}

\* pool_init(&pool) and stack_allocator_init(&stack, POOL_SIZE)
pool_stack_init ==
    /\ stack_state \in {"uninit", "destroyed"}
    /\ pool_used' = 0
    /\ pool_calls' = <<>>
    /\ pool_epoch' = [op |-> "init", dirty |-> FALSE]
    /\ stack_buffer' = STACK_BUFFER
    /\ stack_capacity' = POOL_SIZE
    /\ stack_used' = 0
    /\ stack_state' = "ready"
    /\ stack_last' = [op |-> "init", null |-> FALSE, off |-> 0,
                      marker |-> 0, clean |-> FALSE, before |-> 0,
                      top |-> NoRegion]
    /\ stack_markers' = [s \in 1..MaxMarkers |-> NoMarker]
    /\ UNCHANGED <<blockVars, trackVars>>

\* pool_alloc(&pool, size) and stack_alloc(&stack, size)
pool_stack_alloc ==
    /\ stack_state = "ready"
    /\ Len(pool_calls) < MaxPoolCalls
    /\ \E size \in LockstepSizes :
         LET p == pool_alloc_result(pool_used, size)
             r == stack_alloc_result(stack_used, stack_capacity, size) IN
         /\ pool_used' = p.used
         /\ pool_calls' = Append(pool_calls,
                [size |-> size, before |-> pool_used, null |-> p.null,
                 off |-> p.off, after |-> p.used])
         /\ stack_used' = r.used
         /\ stack_last' = [op |-> "alloc", null |-> r.null, off |-> r.off,
                           marker |-> 0, clean |-> FALSE, before |-> stack_used,
                           top |-> IF r.null THEN stack_last.top
                                   ELSE [off |-> r.off, end |-> r.used]]
    /\ UNCHANGED <<pool_epoch, stack_state, stack_buffer, stack_capacity,
                   stack_markers>>
    /\ UNCHANGED <<blockVars, trackVars>>

\* pool_reset(&pool) and stack_free_to_marker(&stack, 0)
pool_stack_reset ==
    /\ stack_state = "ready"
    /\ pool_used' = 0
    /\ pool_calls' = <<>>
    /\ pool_epoch' = [op |-> "reset", dirty |-> pool_used > 0]
    /\ stack_used' = stack_free_to_marker_result(stack_used, 0)
    /\ stack_last' = [op |-> "free_to_marker", null |-> FALSE, off |-> 0,
                      marker |-> 0, clean |-> FALSE, before |-> stack_used,
                      top |-> region_after_free(stack_last.top, stack_used, 0)]
    /\ UNCHANGED <<stack_state, stack_buffer, stack_capacity, stack_markers>>
    /\ UNCHANGED <<blockVars, trackVars>>

(***************************************************************************)
(* BlockAllocator                                                          *)
(***************************************************************************)
\* sizeof(BlockNode): one pointer
SIZEOF_BLOCKNODE == 8

\* (block_size, blocks_per_chunk, max_chunks) passed to block_allocator_init
BlockConfigs == {<<1, 1, 1>>, <<32, 2, 2>>, <<32, 3, 0>>, <<32, 4, 2>>}

\* block_alloc and block_free calls made per block_allocator_init
MaxBlockAllocs == 11
MaxBlockFrees == 2

\* the address malloc gives the n-th chunk of an allocator
ChunkAddr(n) == n * 1024

\* the address malloc gives the chunk table
CHUNK_TABLE == 512

NoBlockAllocator ==
    [block_size |-> 0, blocks_per_chunk |-> 0, free_list |-> NULL,
     chunks |-> NULL, slots |-> <<>>, chunk_count |-> 0, max_chunks |-> 0]

\* pushed: the blocks given back and not handed out again, oldest first;
\* twice: the block last given back while it was on the free list, due: the
\* block_alloc calls left until the list yields it a second time; run: the
\* block_alloc calls served since the last growth, that call included, while
\* no block was given back
NoBlockHist ==
    [allocs |-> 0, ok |-> 0, frees |-> 0, growths |-> 0,
     credit |-> 0, sys_ok |-> TRUE, pushed |-> <<>>,
     twice |-> NULL, due |-> 0, run |-> 0]

\* sys_null: malloc was asked for a chunk and gave NULL; released: the
\* pointers passed to free(), in order; null_read: the call read the next
\* field of a NULL list head
NoBlockLast ==
    [op |-> "none", ptr |-> NULL, grew |-> FALSE, credit |-> 0,
     list_before |-> NULL, was_held |-> FALSE, count_before |-> 0,
     sys_null |-> FALSE, released |-> <<>>, null_read |-> FALSE]

\* what block_allocator_init may also be given: no block per chunk
BlockConfigsEmpty == {<<32, 0, 2>>, <<32, 0, 0>>}

\* the blocks of a chunk, by address
BlocksOfChunk(chunk, block_size, blocks_per_chunk) ==
    {chunk + i * block_size : i \in 0..(blocks_per_chunk - 1)}

\* the allocator as block_allocator_init leaves it; table: what malloc gave
\* for the chunk table
block_allocator_init_result(block_size, blocks_per_chunk, max_chunks, table) ==
    [block_size |-> IF block_size < SIZEOF_BLOCKNODE THEN SIZEOF_BLOCKNODE
                    ELSE block_size,
     blocks_per_chunk |-> blocks_per_chunk,
     free_list |-> NULL,
     chunk_count |-> 0,
     max_chunks |-> max_chunks,
     chunks |-> table,
     slots |-> [i \in 1..max_chunks |-> NULL]]

\* the loop of block_allocator_add_chunk from index i on: every block of the
\* chunk is pushed on the free list
RECURSIVE add_chunk_loop_from_end(_, _, _, _, _)
add_chunk_loop_from_end(a, mem, free_list, block, i) ==
    IF i < a.blocks_per_chunk
    THEN LET b == block + (a.blocks_per_chunk - 1 - i) * a.block_size IN
         add_chunk_loop_from_end(a,
                        [x \in DOMAIN mem \cup {b} |->
                            IF x = b THEN free_list ELSE mem[x]],
                        b, block, i + 1)
    ELSE [mem |-> mem, free_list |-> free_list]

RECURSIVE add_chunk_loop(_, _, _, _, _)
add_chunk_loop(a, mem, free_list, block, i) ==
    IF i < a.blocks_per_chunk
    THEN add_chunk_loop(a,
                        [b \in DOMAIN mem \cup {block} |->
                            IF b = block THEN free_list ELSE mem[b]],
                        block, block + a.block_size, i + 1)
    ELSE [mem |-> mem, free_list |-> free_list]

\* block_allocator_add_chunk; chunk: what malloc gives for the chunk
block_allocator_add_chunk_off_by_one(a, mem, chunk) ==
    IF a.chunk_count > a.max_chunks
    THEN [ret |-> 0, a |-> a, mem |-> mem, malloc |-> FALSE]
    ELSE IF chunk = NULL
    THEN [ret |-> 0, a |-> a, mem |-> mem, malloc |-> TRUE]
    ELSE LET l == add_chunk_loop(a, mem, a.free_list, chunk, 0) IN
         [ret |-> 1,
          a |-> [a EXCEPT !.chunk_count = a.chunk_count + 1,
                          !.free_list = l.free_list],
          mem |-> l.mem,
          malloc |-> TRUE]

block_allocator_add_chunk_counts_failure(a, mem, chunk) ==
    IF a.chunk_count >= a.max_chunks
    THEN [ret |-> 0, a |-> a, mem |-> mem, malloc |-> FALSE]
    ELSE IF chunk = NULL
    THEN [ret |-> 0,
          a |-> [a EXCEPT !.slots[a.chunk_count + 1] = chunk,
                          !.chunk_count = a.chunk_count + 1],
          mem |-> mem, malloc |-> TRUE]
    ELSE LET l == add_chunk_loop(a, mem, a.free_list, chunk, 0) IN
         [ret |-> 1,
          a |-> [a EXCEPT !.slots[a.chunk_count + 1] = chunk,
                          !.chunk_count = a.chunk_count + 1,
                          !.free_list = l.free_list],
          mem |-> l.mem,
          malloc |-> TRUE]

block_allocator_add_chunk_result(a, mem, chunk) ==
    IF a.chunk_count >= a.max_chunks
    THEN [ret |-> 0, a |-> a, mem |-> mem, malloc |-> FALSE]
    ELSE IF chunk = NULL
    THEN [ret |-> 0, a |-> a, mem |-> mem, malloc |-> TRUE]
    ELSE LET l == add_chunk_loop(a, mem, a.free_list, chunk, 0) IN
         [ret |-> 1,
          a |-> [a EXCEPT !.slots[a.chunk_count + 1] = chunk,
                          !.chunk_count = a.chunk_count + 1,
                          !.free_list = l.free_list],
          mem |-> l.mem,
          malloc |-> TRUE]

\* block_alloc; ret: the block returned, grew: a chunk was added
block_alloc_no_pop(a, mem, chunk) ==
    LET g == IF a.free_list = NULL
             THEN block_allocator_add_chunk_result(a, mem, chunk)
             ELSE [ret |-> 1, a |-> a, mem |-> mem, malloc |-> FALSE] IN
    IF g.ret = 0
    THEN [ret |-> NULL, a |-> g.a, mem |-> g.mem, grew |-> FALSE,
          malloc |-> g.malloc, null_read |-> FALSE]
    ELSE [ret |-> g.a.free_list, a |-> g.a, mem |-> g.mem,
          grew |-> a.free_list = NULL, malloc |-> g.malloc,
          null_read |-> FALSE]

block_alloc_result(a, mem, chunk) ==
    LET g == IF a.free_list = NULL
             THEN block_allocator_add_chunk_result(a, mem, chunk)
             ELSE [ret |-> 1, a |-> a, mem |-> mem, malloc |-> FALSE] IN
    IF g.ret = 0
    THEN [ret |-> NULL, a |-> g.a, mem |-> g.mem, grew |-> FALSE,
          malloc |-> g.malloc, null_read |-> FALSE]
    ELSE LET node == g.a.free_list IN
         [ret |-> node,
          a |-> [g.a EXCEPT !.free_list = IF node = NULL THEN NULL
                                          ELSE g.mem[node]],
          mem |-> g.mem, grew |-> a.free_list = NULL, malloc |-> g.malloc,
          null_read |-> node = NULL]

\* block_free
block_free_head_not_set(a, mem, ptr) ==
    IF ptr = NULL
    THEN [a |-> a, mem |-> mem]
    ELSE [a |-> a, mem |-> [mem EXCEPT ![ptr] = a.free_list]]

block_free_next_not_set(a, mem, ptr) ==
    IF ptr = NULL
    THEN [a |-> a, mem |-> mem]
    ELSE [a |-> [a EXCEPT !.free_list = ptr],
          mem |-> [mem EXCEPT ![ptr] = NULL]]

block_free_skips_head(a, mem, ptr) ==
    IF ptr = NULL \/ ptr = a.free_list
    THEN [a |-> a, mem |-> mem]
    ELSE [a |-> [a EXCEPT !.free_list = ptr],
          mem |-> [mem EXCEPT ![ptr] = a.free_list]]

block_free_result(a, mem, ptr) ==
    IF ptr = NULL
    THEN [a |-> a, mem |-> mem]
    ELSE [a |-> [a EXCEPT !.free_list = ptr],
          mem |-> [mem EXCEPT ![ptr] = a.free_list]]

\* the pointers block_allocator_destroy passes to free(), in order
block_allocator_destroy_leaks_last(a) ==
    [i \in 1..(IF a.chunk_count > 0 THEN a.chunk_count - 1 ELSE 0)
        |-> a.slots[i]] \o <<a.chunks>>

block_allocator_destroy_released(a) ==
    [i \in 1..a.chunk_count |-> a.slots[i]] \o <<a.chunks>>

\* malloc gives a chunk table (ok) or NULL
block_allocator_init_call(configs) ==
    /\ blk_state \in {"uninit", "failed", "destroyed"}
    /\ \E c \in configs, ok \in BOOLEAN :
         /\ blk' = block_allocator_init_result(c[1], c[2], c[3],
                       IF ok THEN CHUNK_TABLE ELSE NULL)
         /\ blk_state' = IF ok THEN "ready" ELSE "failed"
         /\ blk_sys' = IF ok THEN {CHUNK_TABLE} ELSE {}
    /\ blk_mem' = <<>>
    /\ blk_held' = {}
    /\ blk_hist' = NoBlockHist
    /\ blk_last' = [NoBlockLast EXCEPT !.op = "init"]
    /\ UNCHANGED <<poolVars, stackVars, trackVars>>

block_allocator_init == block_allocator_init_call(BlockConfigs)

block_allocator_init_any ==
    block_allocator_init_call(BlockConfigs \cup BlockConfigsEmpty)

\* what reading node->next with node = NULL may do: end the process, give
\* 0, or give anything else
NullReads == {"crashed", "zero", "corrupt"}

\* malloc gives the chunk, when block_alloc asks for one, or NULL
block_alloc ==
    /\ blk_state = "ready"
    /\ blk_hist.allocs < MaxBlockAllocs
    /\ \E ok \in BOOLEAN :
         LET chunk == IF ok THEN ChunkAddr(blk.chunk_count + 1) ELSE NULL
             r == block_alloc_result(blk, blk_mem, chunk) IN
         /\ ok \/ r.malloc
         /\ IF r.null_read
            THEN \E o \in NullReads :
                    blk_state' = IF o = "zero" THEN blk_state ELSE o
            ELSE UNCHANGED blk_state
         /\ blk' = r.a
         /\ blk_mem' = r.mem
         /\ blk_sys' = IF r.grew THEN blk_sys \cup {chunk} ELSE blk_sys
         /\ blk_held' = IF r.ret = NULL THEN blk_held
                        ELSE blk_held \cup {r.ret}
         /\ blk_hist' = [blk_hist EXCEPT
                           !.allocs = @ + 1,
                           !.ok = IF r.ret = NULL THEN @ ELSE @ + 1,
                           !.growths = IF r.grew THEN @ + 1 ELSE @,
                           !.credit = IF @ > 0 THEN @ - 1 ELSE 0,
                           !.sys_ok = @ /\ (ok \/ ~r.malloc),
                           !.pushed = IF @ = <<>> THEN @
                                      ELSE SubSeq(@, 1, Len(@) - 1),
                           !.due = IF @ > 0 THEN @ - 1 ELSE 0,
                           !.run = IF r.grew THEN 1
                                   ELSE IF @ > 0 /\ r.ret # NULL THEN @ + 1
                                   ELSE 0]
         /\ blk_last' = [op |-> "alloc", ptr |-> r.ret, grew |-> r.grew,
                         credit |-> blk_hist.credit,
                         list_before |-> blk.free_list,
                         was_held |-> r.ret \in blk_held,
                         count_before |-> blk.chunk_count,
                         sys_null |-> r.malloc /\ ~ok,
                         released |-> <<>>,
                         null_read |-> r.null_read]
    /\ UNCHANGED <<poolVars, stackVars, trackVars>>

\* the caller gives back a block it holds, or NULL
block_free ==
    /\ blk_state = "ready"
    /\ blk_hist.frees < MaxBlockFrees
    /\ \E ptr \in blk_held \cup {NULL} :
         LET r == block_free_result(blk, blk_mem, ptr) IN
         /\ blk' = r.a
         /\ blk_mem' = r.mem
         /\ blk_held' = blk_held \ {ptr}
         /\ blk_hist' = [blk_hist EXCEPT
                           !.frees = @ + 1,
                           !.credit = IF ptr = NULL THEN @ ELSE @ + 1,
                           !.pushed = IF ptr = NULL THEN @
                                      ELSE Append(@, ptr),
                           !.twice = IF ptr = NULL THEN @ ELSE NULL,
                           !.due = IF ptr = NULL THEN @ ELSE 0,
                           !.run = IF ptr = NULL THEN @ ELSE 0]
         /\ blk_last' = [NoBlockLast EXCEPT
                           !.op = "free", !.ptr = ptr,
                           !.list_before = blk.free_list,
                           !.was_held = ptr \in blk_held,
                           !.count_before = blk.chunk_count]
    /\ UNCHANGED <<blk_state, blk_sys>>
    /\ UNCHANGED <<poolVars, stackVars, trackVars>>

\* every recorded chunk and the chunk table go back to the system; the
\* memory of the chunks is gone and the caller's pointers with it
block_allocator_destroy ==
    /\ blk_state = "ready"
    /\ blk_sys' = blk_sys \
                     {block_allocator_destroy_released(blk)[i] :
                        i \in 1..Len(block_allocator_destroy_released(blk))}
    /\ blk' = [blk EXCEPT !.chunks = NULL, !.free_list = NULL,
                          !.chunk_count = 0]
    /\ blk_state' = "destroyed"
    /\ blk_mem' = <<>>
    /\ blk_held' = {}
    /\ blk_hist' = NoBlockHist
    /\ blk_last' = [NoBlockLast EXCEPT
                      !.op = "destroy",
                      !.was_held = blk_held # {},
                      !.count_before = blk.chunk_count,
                      !.released = block_allocator_destroy_released(blk)]
    /\ UNCHANGED <<poolVars, stackVars, trackVars>>

BlockInit ==
    /\ blk_state = "uninit"
    /\ blk = NoBlockAllocator
    /\ blk_mem = <<>>
    /\ blk_sys = {}
    /\ blk_held = {}
    /\ blk_hist = NoBlockHist
    /\ blk_last = NoBlockLast

\* every block of every recorded chunk
BlockAll ==
    UNION {BlocksOfChunk(blk.slots[i], blk.block_size, blk.blocks_per_chunk) :
             i \in 1..blk.chunk_count}

\* the free list, walked from its head along the next pointers for at most
\* `fuel` nodes
RECURSIVE BlockWalk(_, _)
BlockWalk(node, fuel) ==
    IF node = NULL \/ fuel = 0 \/ node \notin DOMAIN blk_mem THEN <<>>
    ELSE <<node>> \o BlockWalk(blk_mem[node], fuel - 1)

BlockFreeList == BlockWalk(blk.free_list, Cardinality(DOMAIN blk_mem) + 1)

\* the caller gives back a block that is on the free list: one it gave back
\* before, or one it never got
block_free_twice ==
    /\ blk_state = "ready"
    /\ blk_hist.frees < MaxBlockFrees
    /\ \E i \in DOMAIN BlockFreeList :
         LET ptr == BlockFreeList[i]
             r == block_free_result(blk, blk_mem, ptr) IN
         /\ \A k \in 1..(i - 1) : BlockFreeList[k] # ptr
         /\ blk' = r.a
         /\ blk_mem' = r.mem
         /\ blk_held' = blk_held \ {ptr}
         /\ blk_hist' = [blk_hist EXCEPT
                           !.frees = @ + 1,
                           !.credit = @ + 1,
                           !.pushed = Append(@, ptr),
                           !.twice = ptr,
                           !.due = i + 1,
                           !.run = 0]
         /\ blk_last' = [NoBlockLast EXCEPT
                           !.op = "free", !.ptr = ptr,
                           !.list_before = blk.free_list,
                           !.was_held = ptr \in blk_held,
                           !.count_before = blk.chunk_count]
    /\ UNCHANGED <<blk_state, blk_sys>>
    /\ UNCHANGED <<poolVars, stackVars, trackVars>>

(***************************************************************************)
(* Tracking memory manager                                                 *)
(***************************************************************************)
TINY_BLOCK_SIZE == 16
SMALL_BLOCK_SIZE == 64
MEDIUM_BLOCK_SIZE == 256

\* blocks per pool (100 in the source, scaled down)
MAX_BLOCKS_PER_POOL == 1

\* 0xDEADBEEF, its low 16 bits
MEMORY_MAGIC == 48879

\* sizeof(MemoryHeader) with 8-byte size_t and pointers
SIZEOF_HEADER == 48

\* addresses of the blocks the system allocator can hand out
HeapAddrs == {1024, 2048, 3072}

\* memory_alloc and memory_free calls between memory_manager_init and
\* memory_manager_cleanup
MaxMallocCalls == 3
MaxFreeCalls == 2

\* writes of a caller over a header between two cleanups
MaxOverwrites == 1

\* the MM_ALLOC calls: size requested (served by the small pool, the medium
\* pool, malloc) and __LINE__
TrackCalls == {<<10, 416>>, <<160, 425>>, <<4000, 432>>}

\* what malloc may give: NULL, or a block that is not handed out. Blocks
\* differ by their address alone, so the lowest one stands for all.
SysMalloc(sys) ==
    IF HeapAddrs \ sys = {} THEN {NULL}
    ELSE {NULL, CHOOSE a \in HeapAddrs \ sys :
                   \A b \in HeapAddrs \ sys : a <= b}

\* what a caller writing below its buffer leaves in the magic field (a
\* cleared magic is what a freed block holds)
CorruptMagics == {1}

\* what a read of a magic field in released memory may give: the value last
\* written, the magic, anything else
StaleMagics(written) == {written, MEMORY_MAGIC, 1}

ZeroPool ==
    [blocks |-> [i \in 1..MAX_BLOCKS_PER_POOL |-> NULL],
     used |-> [i \in 1..MAX_BLOCKS_PER_POOL |-> FALSE],
     block_size |-> 0, count |-> 0]

\* static MemoryManager g_memory_manager = {0}
ZeroManager ==
    [tiny_pool |-> ZeroPool, small_pool |-> ZeroPool, medium_pool |-> ZeroPool,
     allocations |-> NULL, allocation_count |-> 0, total_allocated |-> 0,
     peak_allocated |-> 0, malloc_calls |-> 0, free_calls |-> 0,
     pool_hits |-> 0]

NoOutput == [kind |-> "none", line |-> 0, leaks |-> <<>>]

NoTrackHist == [allocs |-> 0, frees |-> 0, overwrites |-> 0]

NoTrackLast ==
    [op |-> "none", ptr |-> NULL, magic |-> 0, stale |-> FALSE,
     owned |-> TRUE]

init_block_pool(block_size) ==
    [ZeroPool EXCEPT !.block_size = block_size]

memory_manager_init_result(m) ==
    [m EXCEPT !.tiny_pool = init_block_pool(TINY_BLOCK_SIZE),
              !.small_pool = init_block_pool(SMALL_BLOCK_SIZE),
              !.medium_pool = init_block_pool(MEDIUM_BLOCK_SIZE),
              !.allocations = NULL,
              !.allocation_count = 0,
              !.total_allocated = 0,
              !.peak_allocated = 0,
              !.malloc_calls = 0,
              !.free_calls = 0,
              !.pool_hits = 0]

\* add_block_to_pool; block: what malloc gives
add_block_to_pool_counts_failure(pool, block) ==
    IF pool.count >= MAX_BLOCKS_PER_POOL
    THEN [ret |-> FALSE, pool |-> pool, malloc |-> FALSE]
    ELSE [ret |-> block # NULL,
          pool |-> [pool EXCEPT !.blocks[pool.count + 1] = block,
                                !.used[pool.count + 1] = FALSE,
                                !.count = pool.count + 1],
          malloc |-> TRUE]

add_block_to_pool(pool, block) ==
    IF pool.count >= MAX_BLOCKS_PER_POOL
    THEN [ret |-> FALSE, pool |-> pool, malloc |-> FALSE]
    ELSE IF block = NULL
    THEN [ret |-> FALSE, pool |-> pool, malloc |-> TRUE]
    ELSE [ret |-> TRUE,
          pool |-> [pool EXCEPT !.blocks[pool.count + 1] = block,
                                !.used[pool.count + 1] = FALSE,
                                !.count = pool.count + 1],
          malloc |-> TRUE]

get_block_category(size) ==
    IF size <= TINY_BLOCK_SIZE THEN "BLOCK_TINY"
    ELSE IF size <= SMALL_BLOCK_SIZE THEN "BLOCK_SMALL"
    ELSE IF size <= MEDIUM_BLOCK_SIZE THEN "BLOCK_MEDIUM"
    ELSE "BLOCK_LARGE"

\* get_pool_for_category: the pool's field of the manager
get_pool_for_category(category) ==
    CASE category = "BLOCK_TINY" -> "tiny_pool"
      [] category = "BLOCK_SMALL" -> "small_pool"
      [] category = "BLOCK_MEDIUM" -> "medium_pool"
      [] OTHER -> "none"

\* allocate_from_pool; block: what malloc gives if a block is added
allocate_from_pool_new_unmarked(pool, block) ==
    LET unused == {i \in 1..pool.count : ~pool.used[i]} IN
    IF unused # {}
    THEN LET i == CHOOSE k \in unused : \A j \in unused : k <= j IN
         [ptr |-> pool.blocks[i], pool |-> [pool EXCEPT !.used[i] = TRUE],
          hit |-> TRUE, malloc |-> FALSE]
    ELSE LET r == add_block_to_pool(pool, block) IN
         IF r.ret
         THEN [ptr |-> r.pool.blocks[r.pool.count], pool |-> r.pool,
               hit |-> FALSE, malloc |-> TRUE]
         ELSE [ptr |-> NULL, pool |-> r.pool, hit |-> FALSE,
               malloc |-> r.malloc]

allocate_from_pool(pool, block) ==
    LET unused == {i \in 1..pool.count : ~pool.used[i]} IN
    IF unused # {}
    THEN LET i == CHOOSE k \in unused : \A j \in unused : k <= j IN
         [ptr |-> pool.blocks[i], pool |-> [pool EXCEPT !.used[i] = TRUE],
          hit |-> TRUE, malloc |-> FALSE]
    ELSE LET r == add_block_to_pool(pool, block) IN
         IF r.ret
         THEN [ptr |-> r.pool.blocks[r.pool.count],
               pool |-> [r.pool EXCEPT !.used[r.pool.count] = TRUE],
               hit |-> FALSE, malloc |-> TRUE]
         ELSE [ptr |-> NULL, pool |-> r.pool, hit |-> FALSE,
               malloc |-> r.malloc]

\* track_allocation: the header is written at ptr and linked in front
track_allocation_peak_before(m, mem, ptr, size, line) ==
    LET header == [size |-> size, magic |-> MEMORY_MAGIC, file |-> "main.c",
                   line |-> line, prev |-> NULL, next |-> m.allocations]
        mem1 == [a \in DOMAIN mem \cup {ptr} |->
                    IF a = ptr THEN header ELSE mem[a]]
        mem2 == IF m.allocations # NULL
                THEN [mem1 EXCEPT ![m.allocations].prev = ptr]
                ELSE mem1
        total == SizeT(m.total_allocated + size) IN
    [m |-> [m EXCEPT !.allocations = ptr,
                     !.allocation_count = SizeT(m.allocation_count + 1),
                     !.total_allocated = total,
                     !.peak_allocated = IF m.total_allocated > m.peak_allocated
                                        THEN m.total_allocated
                                        ELSE m.peak_allocated],
     mem |-> mem2]

track_allocation(m, mem, ptr, size, line) ==
    LET header == [size |-> size, magic |-> MEMORY_MAGIC, file |-> "main.c",
                   line |-> line, prev |-> NULL, next |-> m.allocations]
        mem1 == [a \in DOMAIN mem \cup {ptr} |->
                    IF a = ptr THEN header ELSE mem[a]]
        mem2 == IF m.allocations # NULL
                THEN [mem1 EXCEPT ![m.allocations].prev = ptr]
                ELSE mem1
        total == SizeT(m.total_allocated + size) IN
    [m |-> [m EXCEPT !.allocations = ptr,
                     !.allocation_count = SizeT(m.allocation_count + 1),
                     !.total_allocated = total,
                     !.peak_allocated = IF total > m.peak_allocated
                                        THEN total ELSE m.peak_allocated],
     mem |-> mem2]

\* untrack_allocation
untrack_allocation_count_kept(m, mem, header) ==
    IF mem[header].magic # MEMORY_MAGIC
    THEN [m |-> m, mem |-> mem, error |-> TRUE]
    ELSE LET h == mem[header]
             mem1 == IF h.prev # NULL
                     THEN [mem EXCEPT ![h.prev].next = h.next]
                     ELSE mem
             mem2 == IF h.next # NULL
                     THEN [mem1 EXCEPT ![h.next].prev = h.prev]
                     ELSE mem1 IN
         [m |-> [m EXCEPT
                   !.allocations = IF h.prev # NULL THEN m.allocations
                                   ELSE h.next,
                   !.total_allocated = SizeT(m.total_allocated - h.size)],
          mem |-> mem2, error |-> FALSE]

untrack_allocation_head_only(m, mem, header) ==
    IF mem[header].magic # MEMORY_MAGIC
    THEN [m |-> m, mem |-> mem, error |-> TRUE]
    ELSE LET h == mem[header] IN
         [m |-> [m EXCEPT
                   !.allocations = h.next,
                   !.allocation_count = SizeT(m.allocation_count - 1),
                   !.total_allocated = SizeT(m.total_allocated - h.size)],
          mem |-> mem, error |-> FALSE]

untrack_allocation_prev_kept(m, mem, header) ==
    IF mem[header].magic # MEMORY_MAGIC
    THEN [m |-> m, mem |-> mem, error |-> TRUE]
    ELSE LET h == mem[header]
             mem1 == IF h.prev # NULL
                     THEN [mem EXCEPT ![h.prev].next = h.next]
                     ELSE mem IN
         [m |-> [m EXCEPT
                   !.allocations = IF h.prev # NULL THEN m.allocations
                                   ELSE h.next,
                   !.allocation_count = SizeT(m.allocation_count - 1),
                   !.total_allocated = SizeT(m.total_allocated - h.size)],
          mem |-> mem1, error |-> FALSE]

untrack_allocation(m, mem, header) ==
    IF mem[header].magic # MEMORY_MAGIC
    THEN [m |-> m, mem |-> mem, error |-> TRUE]
    ELSE LET h == mem[header]
             mem1 == IF h.prev # NULL
                     THEN [mem EXCEPT ![h.prev].next = h.next]
                     ELSE mem
             mem2 == IF h.next # NULL
                     THEN [mem1 EXCEPT ![h.next].prev = h.prev]
                     ELSE mem1 IN
         [m |-> [m EXCEPT
                   !.allocations = IF h.prev # NULL THEN m.allocations
                                   ELSE h.next,
                   !.allocation_count = SizeT(m.allocation_count - 1),
                   !.total_allocated = SizeT(m.total_allocated - h.size)],
          mem |-> mem2, error |-> FALSE]

\* memory_alloc; pool_block, fallback: what malloc gives for a new pool block
\* and for malloc(total_size). ret: the pointer behind the header;
\* got: the block taken from the system
memory_alloc_result(m, mem, size, line, pool_block, fallback) ==
    LET m0 == [m EXCEPT !.malloc_calls = SizeT(m.malloc_calls + 1)]
        total_size == SizeT(size + SIZEOF_HEADER)
        category == get_block_category(total_size)
        field == get_pool_for_category(category)
        p == IF category # "BLOCK_LARGE"
             THEN allocate_from_pool(m0[field], pool_block)
             ELSE [ptr |-> NULL, pool |-> ZeroPool, hit |-> FALSE,
                   malloc |-> FALSE]
        m1 == IF category # "BLOCK_LARGE"
              THEN [m0 EXCEPT ![field] = p.pool,
                              !.pool_hits = IF p.hit THEN SizeT(@ + 1) ELSE @]
              ELSE m0
        ptr == IF p.ptr # NULL THEN p.ptr ELSE fallback IN
    IF ptr = NULL
    THEN [ret |-> NULL, m |-> m1, mem |-> mem, got |-> NULL,
          pool_malloc |-> p.malloc, fallback_malloc |-> TRUE]
    ELSE LET t == track_allocation(m1, mem, ptr, size, line) IN
         [ret |-> ptr + SIZEOF_HEADER, m |-> t.m, mem |-> t.mem,
          got |-> IF p.ptr # NULL
                  THEN (IF p.malloc THEN p.ptr ELSE NULL)
                  ELSE fallback,
          pool_malloc |-> p.malloc, fallback_malloc |-> p.ptr = NULL]

\* return_to_pool; released: the block passed to free(), if any
return_to_pool(m, ptr, category) ==
    IF category = "BLOCK_LARGE"
    THEN [m |-> m, released |-> ptr]
    ELSE LET field == get_pool_for_category(category)
             pool == m[field]
             found == {i \in 1..pool.count : pool.blocks[i] = ptr} IN
         IF found # {}
         THEN LET i == CHOOSE k \in found : \A j \in found : k <= j IN
              [m |-> [m EXCEPT ![field].used[i] = FALSE], released |-> NULL]
         ELSE [m |-> m, released |-> ptr]

\* memory_free of a non-NULL ptr; magic: what the header's magic field holds
\* when the call reads it
memory_free_unchecked(m, mem, ptr, magic) ==
    LET m0 == [m EXCEPT !.free_calls = SizeT(m.free_calls + 1)]
        header == ptr - SIZEOF_HEADER
        mem0 == [mem EXCEPT ![header].magic = magic]
        category ==
            get_block_category(SizeT(mem0[header].size + SIZEOF_HEADER))
        u == untrack_allocation(m0, mem0, header)
        mem1 == [u.mem EXCEPT ![header].magic = 0]
        r == return_to_pool(u.m, header, category) IN
    [m |-> r.m, mem |-> mem1, released |-> r.released,
     out |-> IF u.error
             THEN [NoOutput EXCEPT !.kind = "untrack_error"]
             ELSE NoOutput]

memory_free_result(m, mem, ptr, magic) ==
    LET m0 == [m EXCEPT !.free_calls = SizeT(m.free_calls + 1)]
        header == ptr - SIZEOF_HEADER
        mem0 == [mem EXCEPT ![header].magic = magic] IN
    IF mem0[header].magic # MEMORY_MAGIC
    THEN [m |-> m0, mem |-> mem0, released |-> NULL,
          out |-> [NoOutput EXCEPT !.kind = "free_error",
                                   !.line = mem0[header].line]]
    ELSE LET category ==
                 get_block_category(SizeT(mem0[header].size + SIZEOF_HEADER))
             u == untrack_allocation(m0, mem0, header)
             mem1 == [u.mem EXCEPT ![header].magic = 0]
             r == return_to_pool(u.m, header, category) IN
         [m |-> r.m, mem |-> mem1, released |-> r.released,
          out |-> IF u.error
                  THEN [NoOutput EXCEPT !.kind = "untrack_error"]
                  ELSE NoOutput]

\* the records memory_print_report prints in its while loop: size and line
\* of every header from `current` on, for at most `fuel` headers
RECURSIVE report_loop(_, _, _)
report_loop(mem, current, fuel) ==
    IF current = NULL \/ fuel = 0 \/ current \notin DOMAIN mem THEN <<>>
    ELSE <<[size |-> mem[current].size, line |-> mem[current].line]>>
         \o report_loop(mem, mem[current].next, fuel - 1)

memory_print_report_result(m, mem) ==
    [NoOutput EXCEPT
       !.kind = "report",
       !.leaks = IF m.allocation_count > 0
                 THEN report_loop(mem, m.allocations, Cardinality(HeapAddrs) + 1)
                 ELSE <<>>]

memory_check_leaks(m) == m.allocation_count > 0

\* the pool blocks memory_manager_cleanup passes to free()
cleanup_released_unused_only(m) ==
    {m.tiny_pool.blocks[i] :
        i \in {k \in 1..m.tiny_pool.count : ~m.tiny_pool.used[k]}}
    \cup {m.small_pool.blocks[i] :
        i \in {k \in 1..m.small_pool.count : ~m.small_pool.used[k]}}
    \cup {m.medium_pool.blocks[i] :
        i \in {k \in 1..m.medium_pool.count : ~m.medium_pool.used[k]}}

cleanup_released(m) ==
    {m.tiny_pool.blocks[i] : i \in 1..m.tiny_pool.count}
    \cup {m.small_pool.blocks[i] : i \in 1..m.small_pool.count}
    \cup {m.medium_pool.blocks[i] : i \in 1..m.medium_pool.count}

(* Actions of the tracking memory manager *)

LivePtrs == {l.ptr : l \in mm_live}

\* called at the start, and again after a memory_manager_cleanup that left
\* no block behind
memory_manager_init ==
    /\ mm_state = "zero"
    /\ mm_sys = {}
    /\ ~mm_ub
    /\ mm_state' = "ready"
    /\ mm' = memory_manager_init_result(mm)
    /\ mm_out' = NoOutput
    /\ mm_last' = [NoTrackLast EXCEPT !.op = "init"]
    /\ UNCHANGED <<mm_mem, mm_sys, mm_live, mm_stale, mm_hist, mm_ub>>
    /\ UNCHANGED <<poolVars, stackVars, blockVars>>

\* memory_alloc(size, file, line) by a caller; keep: the callers still keep
\* the pointers they have freed
memory_alloc_call(keep) ==
    /\ mm_state = "ready"
    /\ ~mm_ub
    /\ mm.malloc_calls < MaxMallocCalls
    /\ \E call \in TrackCalls :
       \E pool_block \in SysMalloc(mm_sys) :
       \E fallback \in SysMalloc(mm_sys) :
       \E r \in {memory_alloc_result(mm, mm_mem, call[1], call[2], pool_block,
                                    fallback)} :
          /\ r.pool_malloc \/ pool_block = NULL
          /\ r.fallback_malloc \/ fallback = NULL
          /\ mm' = r.m
          /\ mm_mem' = r.mem
          /\ mm_sys' = IF r.got # NULL THEN mm_sys \cup {r.got} ELSE mm_sys
          /\ mm_live' = IF r.ret # NULL
                        THEN mm_live \cup
                             {[ptr |-> r.ret, size |-> call[1],
                               line |-> call[2]]}
                        ELSE mm_live
          /\ mm_stale' = IF keep THEN mm_stale ELSE {}
          /\ mm_out' = NoOutput
          /\ mm_hist' = IF r.ret # NULL
                        THEN [mm_hist EXCEPT !.allocs = @ + 1]
                        ELSE mm_hist
          /\ mm_last' = [NoTrackLast EXCEPT !.op = "alloc", !.ptr = r.ret]
    /\ UNCHANGED <<mm_state, mm_ub>>
    /\ UNCHANGED <<poolVars, stackVars, blockVars>>

\* memory_alloc, after which no pointer freed earlier is freed again
memory_alloc == memory_alloc_call(FALSE)

\* memory_alloc between a memory_free of a pointer and a later memory_free
\* of the same pointer
memory_alloc_between == memory_alloc_call(TRUE)

\* memory_free(ptr) by a caller; stale: the caller has freed ptr before and
\* was not given it again
memory_free_call(ptr, stale) ==
    /\ mm_state = "ready"
    /\ ~mm_ub
    /\ IF ptr = NULL
       THEN UNCHANGED <<mm, mm_mem, mm_sys, mm_live, mm_stale, mm_out,
                        mm_hist, mm_last, mm_ub>>
       ELSE LET header == ptr - SIZEOF_HEADER
                owned == header \in mm_sys IN
            /\ mm.free_calls < MaxFreeCalls
            /\ \E magic \in (IF owned THEN {mm_mem[header].magic}
                             ELSE StaleMagics(mm_mem[header].magic)) :
               \E r \in {memory_free_result(mm, mm_mem, ptr, magic)} :
                  /\ mm' = r.m
                  /\ mm_mem' = r.mem
                  /\ mm_sys' = mm_sys \ {r.released}
                  /\ mm_ub' = (~owned \/
                               (r.released # NULL /\ r.released \notin mm_sys))
                  /\ mm_live' = IF stale THEN mm_live
                                ELSE {l \in mm_live : l.ptr # ptr}
                  /\ mm_stale' = IF magic = MEMORY_MAGIC
                                 THEN mm_stale \cup {ptr}
                                 ELSE mm_stale
                  /\ mm_out' = r.out
                  /\ mm_hist' = IF stale THEN mm_hist
                                ELSE [mm_hist EXCEPT !.frees = @ + 1]
                  /\ mm_last' = [op |-> "free", ptr |-> ptr, magic |-> magic,
                                 stale |-> stale, owned |-> owned]
    /\ UNCHANGED mm_state
    /\ UNCHANGED <<poolVars, stackVars, blockVars>>

\* memory_free of NULL or of a pointer memory_alloc returned and that was
\* not passed to memory_free since
memory_free ==
    \E ptr \in LivePtrs \cup {NULL} : memory_free_call(ptr, FALSE)

\* memory_free of a pointer its caller has freed before, whose block the
\* manager owns: it is in a pool, or malloc has handed it out again
memory_free_twice ==
    \E ptr \in mm_stale :
       /\ (ptr - SIZEOF_HEADER) \in mm_sys
       /\ memory_free_call(ptr, TRUE)

\* memory_free of a pointer its caller has freed before, whose block went
\* back to the system
memory_free_released ==
    \E ptr \in mm_stale :
       /\ (ptr - SIZEOF_HEADER) \notin mm_sys
       /\ memory_free_call(ptr, TRUE)

\* the caller writes over the magic field in front of its buffer
header_overwrite ==
    /\ mm_state = "ready"
    /\ ~mm_ub
    /\ mm_hist.overwrites < MaxOverwrites
    /\ \E ptr \in LivePtrs, v \in CorruptMagics :
          /\ mm_mem[ptr - SIZEOF_HEADER].magic = MEMORY_MAGIC
          /\ mm_mem' = [mm_mem EXCEPT ![ptr - SIZEOF_HEADER].magic = v]
          /\ mm_last' = [NoTrackLast EXCEPT !.op = "overwrite", !.ptr = ptr]
    /\ mm_hist' = [mm_hist EXCEPT !.overwrites = @ + 1]
    /\ mm_out' = NoOutput
    /\ UNCHANGED <<mm_state, mm, mm_sys, mm_live, mm_stale, mm_ub>>
    /\ UNCHANGED <<poolVars, stackVars, blockVars>>

memory_print_report ==
    /\ mm_state = "ready"
    /\ ~mm_ub
    /\ mm_out' = memory_print_report_result(mm, mm_mem)
    /\ mm_last' = [NoTrackLast EXCEPT !.op = "report"]
    /\ UNCHANGED <<mm_state, mm, mm_mem, mm_sys, mm_live, mm_stale, mm_hist,
                   mm_ub>>
    /\ UNCHANGED <<poolVars, stackVars, blockVars>>

memory_manager_cleanup ==
    /\ mm_state = "ready"
    /\ ~mm_ub
    /\ mm_out' = IF memory_check_leaks(mm)
                 THEN memory_print_report_result(mm, mm_mem)
                 ELSE NoOutput
    /\ mm_sys' = mm_sys \ cleanup_released(mm)
    /\ mm' = ZeroManager
    /\ mm_state' = "zero"
    /\ mm_mem' = <<>>
    /\ mm_live' = {}
    /\ mm_stale' = {}
    /\ mm_hist' = NoTrackHist
    /\ mm_last' = [NoTrackLast EXCEPT !.op = "cleanup",
                                   !.ptr = mm.allocations]
    /\ UNCHANGED mm_ub
    /\ UNCHANGED <<poolVars, stackVars, blockVars>>

TrackInit ==
    /\ mm_state = "zero"
    /\ mm = ZeroManager
    /\ mm_mem = <<>>
    /\ mm_sys = {}
    /\ mm_live = {}
    /\ mm_stale = {}
    /\ mm_out = NoOutput
    /\ mm_hist = NoTrackHist
    /\ mm_last = NoTrackLast
    /\ mm_ub = FALSE

\* the headers linked from g_memory_manager.allocations, in list order
RECURSIVE list_from(_, _, _)
list_from(mem, current, fuel) ==
    IF current = NULL \/ fuel = 0 \/ current \notin DOMAIN mem THEN <<>>
    ELSE <<current>> \o list_from(mem, mem[current].next, fuel - 1)

Outstanding == list_from(mm_mem, mm.allocations, Cardinality(HeapAddrs) + 1)


(***************************************************************************)
(* Specifications                                                          *)
(***************************************************************************)
Init ==
    /\ PoolInit
    /\ StackInit
    /\ BlockInit
    /\ TrackInit

NextArena ==
    \/ pool_init
    \/ pool_alloc
    \/ pool_reset

SpecArena == Init /\ [][NextArena]_vars

NextLockstep ==
    \/ pool_stack_init
    \/ pool_stack_alloc
    \/ pool_stack_reset

SpecLockstep == Init /\ [][NextLockstep]_vars

NextStack ==
    \/ stack_allocator_init
    \/ stack_alloc
    \/ stack_get_marker
    \/ stack_free_to_marker
    \/ stack_allocator_destroy

SpecStack == Init /\ [][NextStack]_vars

\* rollbacks to any value, those stack_get_marker can give among them
NextStackAny ==
    \/ stack_allocator_init
    \/ stack_alloc
    \/ stack_free_to_value
    \/ stack_allocator_destroy

SpecStackAny == Init /\ [][NextStackAny]_vars

\* the same with calls on a destroyed stack
NextStackDestroyed ==
    \/ stack_allocator_init
    \/ stack_alloc
    \/ stack_get_marker
    \/ stack_free_to_marker
    \/ stack_allocator_destroy
    \/ stack_alloc_destroyed
    \/ stack_free_to_marker_destroyed
    \/ stack_allocator_destroy_again

SpecStackDestroyed == Init /\ [][NextStackDestroyed]_vars

NextBlock ==
    \/ block_allocator_init
    \/ block_alloc
    \/ block_free
    \/ block_allocator_destroy

SpecBlock == Init /\ [][NextBlock]_vars

\* the same with blocks given back while they are on the free list
NextBlockTwice ==
    \/ block_allocator_init
    \/ block_alloc
    \/ block_free
    \/ block_free_twice
    \/ block_allocator_destroy

SpecBlockTwice == Init /\ [][NextBlockTwice]_vars

\* allocators initialised with any configuration
NextBlockAny ==
    \/ block_allocator_init_any
    \/ block_alloc
    \/ block_free
    \/ block_allocator_destroy

SpecBlockAny == Init /\ [][NextBlockAny]_vars

NextTrack ==
    \/ memory_manager_init
    \/ memory_alloc
    \/ memory_free
    \/ memory_free_twice
    \/ header_overwrite
    \/ memory_print_report
    \/ memory_manager_cleanup

SpecTrack == Init /\ [][NextTrack]_vars

\* memory_alloc and memory_free of live pointers alone
NextTrackLive ==
    \/ memory_manager_init
    \/ memory_alloc
    \/ memory_free
    \/ memory_manager_cleanup

SpecTrackLive == Init /\ [][NextTrackLive]_vars

\* the same with second frees of blocks that went back to the system
NextTrackReleased ==
    \/ memory_manager_init
    \/ memory_alloc
    \/ memory_free
    \/ memory_free_twice
    \/ memory_free_released
    \/ header_overwrite
    \/ memory_print_report
    \/ memory_manager_cleanup

SpecTrackReleased == Init /\ [][NextTrackReleased]_vars

\* second frees of a pointer with memory_alloc calls in between
NextTrackReuse ==
    \/ memory_manager_init
    \/ memory_alloc_between
    \/ memory_free
    \/ memory_free_twice
    \/ memory_manager_cleanup

SpecTrackReuse == Init /\ [][NextTrackReuse]_vars

(***************************************************************************)
(* Claims: MemoryPool                                                      *)
(***************************************************************************)
PoolRounded == [i \in 1..Len(pool_calls) |-> RoundUp8(pool_calls[i].size)]

PoolRegionsDisjoint(a, b) ==
    \/ a.off + a.size <= b.off
    \/ b.off + b.size <= a.off

\* C1: starting from pool_init, whenever the 8-byte-rounded sizes of the
\* pool_alloc calls made so far sum to at most POOL_SIZE, every one of the
\* calls returned a pointer, each at an offset that is a multiple of 8, and
\* the regions [offset, offset + size) of any two of them do not overlap.
C1_PoolFits ==
    SumOver(PoolRounded, Len(pool_calls)) <= POOL_SIZE =>
        /\ \A i \in 1..Len(pool_calls) :
             /\ ~pool_calls[i].null
             /\ pool_calls[i].off % 8 = 0
             /\ pool_calls[i].off + pool_calls[i].size <= POOL_SIZE
        /\ \A i, j \in 1..Len(pool_calls) :
             i < j => PoolRegionsDisjoint(pool_calls[i], pool_calls[j])

\* three calls that fit, one of them of an unaligned size, another starting
\* right behind it
C1_Witness ==
    /\ Len(pool_calls) >= 3
    /\ SumOver(PoolRounded, Len(pool_calls)) <= POOL_SIZE
    /\ \E i \in 1..Len(pool_calls) :
         /\ pool_calls[i].size % 8 # 0
         /\ i < Len(pool_calls)
         /\ pool_calls[i + 1].size > 0

C11_ArenaInvariant ==
    /\ pool_used \in 0..POOL_SIZE
    /\ pool_used % 8 = 0
    /\ \A i \in 1..Len(pool_calls) :
          /\ pool_calls[i].after >= pool_calls[i].before
          /\ pool_calls[i].before =
                IF i = 1 THEN 0 ELSE pool_calls[i - 1].after
    /\ pool_used = IF pool_calls = <<>> THEN 0
                   ELSE pool_calls[Len(pool_calls)].after

\* used went up, a call was refused, used went up again to POOL_SIZE
C11_Witness ==
    /\ pool_used = POOL_SIZE
    /\ \E i, j, k \in 1..Len(pool_calls) :
          /\ i < j /\ j < k
          /\ pool_calls[i].after > pool_calls[i].before
          /\ pool_calls[j].null
          /\ pool_calls[k].after > pool_calls[k].before

\* the calls a newly initialised pool answers to the sizes of pool_calls
RECURSIVE PoolReplay(_, _)
PoolReplay(calls, n) ==
    IF n = 0 THEN <<>>
    ELSE LET prev == PoolReplay(calls, n - 1)
             used == IF n = 1 THEN 0 ELSE prev[n - 1].after
             r == pool_alloc_result(used, calls[n].size) IN
         Append(prev, [size |-> calls[n].size, before |-> used,
                       null |-> r.null, off |-> r.off, after |-> r.used])

\* C12: after pool_reset used = 0, and the pool_alloc calls that follow
\* return the offsets and the successes and failures a newly initialised
\* pool returns for the same sizes, whatever was allocated before the reset.
C12_ResetIsFreshInit ==
    pool_epoch.op = "reset" =>
        /\ pool_calls = <<>> => pool_used = 0
        /\ pool_calls = PoolReplay(pool_calls, Len(pool_calls))

\* a reset of a pool in use, then a call served at offset 0, one behind it
\* and one refused
C12_Witness ==
    /\ pool_epoch.op = "reset"
    /\ pool_epoch.dirty
    /\ Len(pool_calls) >= 3
    /\ ~pool_calls[1].null /\ pool_calls[1].off = 0 /\ pool_calls[1].size > 0
    /\ ~pool_calls[2].null /\ pool_calls[2].off > 0
    /\ pool_calls[3].null

C13_FreeToMarkerFrame ==
    [][stack_last'.op = "free_to_marker" =>
          /\ stack_used' = IF stack_last'.marker <= stack_used
                           THEN stack_last'.marker ELSE stack_used
          /\ stack_last'.marker > stack_used => stack_used' = stack_used
          /\ stack_capacity' = stack_capacity
          /\ stack_buffer' = stack_buffer
          /\ stack_state' = stack_state]_vars

\* a rollback to a marker above used: the stack had been rolled back below
\* it before
C13_Witness ==
    /\ stack_last.op = "free_to_marker"
    /\ stack_last.marker > stack_last.before
    /\ stack_used = stack_last.before
    /\ stack_used > 0

C23_ArbitraryMarkers ==
    [][/\ stack_state' = "ready" =>
             /\ stack_used' >= 0
             /\ stack_used' <= stack_capacity'
       /\ stack_last'.op = "free_to_marker" =>
             /\ stack_used' <= stack_used
             /\ stack_used' \in {stack_used, stack_last'.marker}
             /\ stack_capacity' = stack_capacity]_vars

\* rollbacks to SIZE_MAX and to an unaligned value inside the used part
C23_Witness ==
    /\ stack_state = "ready"
    /\ stack_last.op = "free_to_marker"
    /\ stack_last.marker = 12
    /\ stack_last.before = 16
    /\ stack_used = 12
    /\ stack_capacity = 16

\* C24: after stack_allocator_destroy the stack has buffer = NULL, capacity =
\* 0 and used = 0, and stack_alloc, stack_free_to_marker and
\* stack_allocator_destroy calls leave it so: stack_alloc returns NULL, used
\* stays 0, and free() is not given the released buffer again.
C24_DestroyedTerminal ==
    [][stack_state' = "destroyed" =>
          /\ stack_buffer' = NULL
          /\ stack_capacity' = 0
          /\ stack_used' = 0
          /\ stack_state = "destroyed" =>
                /\ stack_last'.op = "alloc" => stack_last'.ptr = NULL
                /\ stack_last'.op = "destroy" => stack_last'.freed = NULL]_vars

\* a stack_alloc(0) on the destroyed stack passed the capacity test and
\* returned the NULL buffer
C24_Witness ==
    /\ stack_state = "destroyed"
    /\ stack_last.op = "alloc"
    /\ ~stack_last.null
    /\ stack_last.marker = 0
    /\ stack_last.ptr = NULL

\* C14: a StackAllocator of capacity POOL_SIZE and a MemoryPool, given the
\* same sizes, return the same offsets and the same successes and failures
\* at every step and keep equal used values.
C14_StackLikeArena ==
    stack_state = "ready" =>
        /\ stack_used = pool_used
        /\ stack_last.op = "alloc" =>
              /\ pool_calls # <<>>
              /\ pool_calls[Len(pool_calls)].null = stack_last.null
              /\ pool_calls[Len(pool_calls)].off = stack_last.off
              /\ pool_calls[Len(pool_calls)].before = stack_last.before

\* both are full to the last byte after two calls and have refused a third
C14_Witness ==
    /\ stack_state = "ready"
    /\ stack_capacity = POOL_SIZE
    /\ stack_used = POOL_SIZE
    /\ Len(pool_calls) = 3
    /\ pool_calls[2].off > 0 /\ ~pool_calls[2].null
    /\ pool_calls[3].null /\ pool_calls[3].size > 0
    /\ stack_last.op = "alloc" /\ stack_last.null

\* C19: over the whole size_t range, pool_alloc and stack_alloc return NULL
\* whenever the non-wrapping value of used + roundup8(size) exceeds the
\* capacity; a request within 7 of SIZE_MAX never succeeds, and no
\* successful call leaves used smaller than it was.
C19_NoWrapAround ==
    /\ \A i \in 1..Len(pool_calls) :
          /\ pool_calls[i].before + RoundUp8(pool_calls[i].size) > POOL_SIZE
                => pool_calls[i].null
          /\ pool_calls[i].size >= SIZE_MAX - 7 => pool_calls[i].null
          /\ ~pool_calls[i].null
                => pool_calls[i].after >= pool_calls[i].before
    /\ (stack_state = "ready" /\ stack_last.op = "alloc"
            /\ pool_calls # <<>>) =>
          /\ stack_last.before + RoundUp8(pool_calls[Len(pool_calls)].size)
                > stack_capacity => stack_last.null
          /\ pool_calls[Len(pool_calls)].size >= SIZE_MAX - 7
                => stack_last.null
          /\ ~stack_last.null => stack_used >= stack_last.before

(***************************************************************************)
(* Claims: BlockAllocator                                                  *)
(***************************************************************************)
BlockLimit == blk.blocks_per_chunk * blk.max_chunks

\* chunks needed for n blocks
BlockChunksFor(n) ==
    (n + blk.blocks_per_chunk - 1) \div blk.blocks_per_chunk

\* C4: while the system allocator has not failed and nothing was freed, the
\* first blocks_per_chunk * max_chunks calls of block_alloc return pairwise
\* distinct blocks, growing a chunk each time the previous one is used up and
\* max_chunks chunks in all, and every call after them returns NULL.
C4_GrowthBound ==
    (blk_state = "ready" /\ blk_hist.sys_ok /\ blk_hist.frees = 0) =>
        /\ blk_hist.allocs <= BlockLimit =>
              /\ blk_hist.ok = blk_hist.allocs
              /\ Cardinality(blk_held) = blk_hist.allocs
              /\ blk.chunk_count = BlockChunksFor(blk_hist.allocs)
              /\ blk_hist.growths = blk.chunk_count
        /\ blk_hist.allocs > BlockLimit =>
              /\ blk_hist.ok = BlockLimit
              /\ Cardinality(blk_held) = BlockLimit
              /\ blk_last.ptr = NULL
              /\ blk.chunk_count = blk.max_chunks
              /\ blk_hist.growths = blk.max_chunks

\* block_size 32, blocks_per_chunk 4, max_chunks 2: eight blocks out, two
\* chunks grown, the ninth call refused
C4_Witness ==
    /\ blk_state = "ready"
    /\ blk.block_size = 32 /\ blk.blocks_per_chunk = 4 /\ blk.max_chunks = 2
    /\ blk_hist.sys_ok /\ blk_hist.frees = 0
    /\ blk_hist.allocs = 9 /\ blk_hist.ok = 8
    /\ Cardinality(blk_held) = 8
    /\ blk.chunk_count = 2
    /\ blk_last.op = "alloc" /\ blk_last.ptr = NULL

\* C5: block_alloc grows a chunk only when the free list is empty; after k
\* blocks were given back, the next k calls of block_alloc each return a
\* block and leave chunk_count as it was.
C5_Reuse ==
    blk_last.op = "alloc" =>
        /\ blk_last.grew => blk_last.list_before = NULL
        /\ blk_last.credit > 0 =>
              /\ blk_last.ptr # NULL
              /\ ~blk_last.grew
              /\ blk.chunk_count = blk_last.count_before

\* every block was out and the chunk budget used up, two blocks came back
\* and the second call after that has just been served from the free list
C5_Witness ==
    /\ blk_state = "ready"
    /\ blk.blocks_per_chunk = 4 /\ blk.max_chunks = 2
    /\ blk.chunk_count = blk.max_chunks
    /\ blk_hist.frees = 2
    /\ blk_hist.ok = BlockLimit + 2
    /\ Cardinality(blk_held) = BlockLimit
    /\ blk_last.op = "alloc" /\ blk_last.credit = 1 /\ blk_last.ptr # NULL

BlockOccurrences(b) ==
    Cardinality({i \in DOMAIN BlockFreeList : BlockFreeList[i] = b})

\* C6: every block of every recorded chunk is either held by the caller or
\* once in the free list, never both; the free list holds nothing else; and
\* block_alloc never returns a block the caller still holds.
C6_Partition ==
    blk_state = "ready" =>
        /\ \A b \in BlockAll :
             IF b \in blk_held THEN BlockOccurrences(b) = 0
             ELSE BlockOccurrences(b) = 1
        /\ \A i \in DOMAIN BlockFreeList : BlockFreeList[i] \in BlockAll
        /\ blk_held \subseteq BlockAll
        /\ Cardinality(BlockAll) = blk.chunk_count * blk.blocks_per_chunk
        /\ (blk_last.op = "alloc" /\ blk_last.ptr # NULL) =>
               ~blk_last.was_held

\* two chunks, blocks of both held and free, a freed block on the list
C6_Witness ==
    /\ blk_state = "ready"
    /\ blk.chunk_count = 2
    /\ blk_hist.frees = 2
    /\ Cardinality(blk_held) >= 2
    /\ Len(BlockFreeList) >= 3
    /\ blk_last.op = "alloc" /\ blk_last.ptr # NULL /\ blk_last.credit > 0

\* C15: block_alloc returns NULL when the free list is empty and growth
\* fails (chunk_count = max_chunks, or malloc gives NULL for the chunk), and
\* only then; a call that returns NULL leaves free_list, chunk_count and
\* the chunks table as they were; chunk_count <= max_chunks in every state.
C15_AllocFailure ==
    [][/\ blk'.chunk_count <= blk'.max_chunks
       /\ blk_last'.op = "alloc" =>
             /\ blk_last'.ptr = NULL <=>
                   /\ blk.free_list = NULL
                   /\ \/ blk.chunk_count = blk.max_chunks
                      \/ blk_last'.sys_null
             /\ blk_last'.ptr = NULL =>
                   /\ blk'.free_list = blk.free_list
                   /\ blk'.chunk_count = blk.chunk_count
                   /\ blk'.slots = blk.slots
                   /\ blk'.chunks = blk.chunks
                   /\ blk_sys' = blk_sys
                   /\ blk_mem' = blk_mem]_vars

\* malloc gave no second chunk while the first was all handed out
C15_Witness ==
    /\ blk_state = "ready"
    /\ blk_last.op = "alloc" /\ blk_last.ptr = NULL /\ blk_last.sys_null
    /\ blk.chunk_count = 1
    /\ blk.max_chunks = 2
    /\ Cardinality(blk_held) = blk.blocks_per_chunk

\* C16: block_free(p) of a held block p makes p the head of the free list,
\* in front of what the list held; the next block_alloc returns p without
\* growth, and blocks freed in the order p1..pk come back from the next k
\* block_alloc calls in the order pk..p1; block_free(NULL) changes nothing.
C16_FreePushesHead ==
    [][/\ (blk_last'.op = "free" /\ blk_last'.ptr # NULL) =>
             /\ blk'.free_list = blk_last'.ptr
             /\ BlockFreeList' = <<blk_last'.ptr>> \o BlockFreeList
             /\ blk'.chunk_count = blk.chunk_count
       /\ (blk_last'.op = "free" /\ blk_last'.ptr = NULL) =>
             /\ blk' = blk
             /\ blk_mem' = blk_mem
             /\ blk_sys' = blk_sys
             /\ blk_held' = blk_held
       /\ (blk_last'.op = "alloc" /\ blk_hist.pushed # <<>>) =>
             /\ blk_last'.ptr = blk_hist.pushed[Len(blk_hist.pushed)]
             /\ ~blk_last'.grew
             /\ blk'.chunk_count = blk.chunk_count]_vars

\* two blocks were given back onto an empty list and both calls that
\* followed were served, the last one with the block freed first
C16_Witness ==
    /\ blk_state = "ready"
    /\ blk_hist.frees = 2
    /\ blk_hist.pushed = <<>>
    /\ blk_hist.growths = blk.max_chunks
    /\ blk_hist.ok = BlockLimit + 2
    /\ blk_last.op = "alloc" /\ blk_last.credit = 1
    /\ blk_last.ptr # NULL
    /\ blk.free_list = NULL

BlockReleasedSet == {blk_last.released[i] : i \in 1..Len(blk_last.released)}

\* C17: block_allocator_destroy passes every chunk obtained by growth and
\* the chunk table to free() exactly once, whether or not blocks are still
\* held, and leaves chunk_count = 0 and an empty free list; no other
\* operation releases anything.
C17_DestroyReleases ==
    [][/\ blk_last'.op = "destroy" =>
             /\ Len(blk_last'.released) = blk.chunk_count + 1
             /\ Cardinality(BlockReleasedSet') = Len(blk_last'.released)
             /\ BlockReleasedSet' = blk_sys
             /\ blk_sys' = {}
             /\ blk_hist.growths = blk.chunk_count
             /\ blk'.chunk_count = 0
             /\ blk'.free_list = NULL
             /\ blk'.chunks = NULL
       /\ blk_last'.op # "destroy" => blk_sys \subseteq blk_sys']_vars

\* two chunks and the table released while blocks were still held
C17_Witness ==
    /\ blk_state = "destroyed"
    /\ blk_last.op = "destroy"
    /\ blk_last.was_held
    /\ blk_last.count_before = 2
    /\ Len(blk_last.released) = 3
    /\ blk_sys = {}

\* C25: a growth leaves the blocks of the new chunk on the free list with
\* the highest address first; the blocks_per_chunk block_alloc calls from
\* the one that grew on, with no block given back in between, return the
\* chunk's blocks in decreasing address order, the chunk's last block first.
C25_OrderAfterGrowth ==
    (blk_state = "ready" /\ blk_hist.run > 0) =>
        LET chunk == blk.slots[blk.chunk_count]
            left == blk.blocks_per_chunk - blk_hist.run IN
        /\ blk_hist.run <= blk.blocks_per_chunk
        /\ blk_last.op = "alloc" =>
              /\ blk_last.ptr = chunk + left * blk.block_size
              /\ blk_last.grew <=> blk_hist.run = 1
        /\ BlockFreeList =
              [i \in 1..left |-> chunk + (left - i) * blk.block_size]

\* the four blocks of a second chunk have all been handed out in a row
C25_Witness ==
    /\ blk_state = "ready"
    /\ blk.blocks_per_chunk = 4
    /\ blk.chunk_count = 2
    /\ blk_hist.run = 4
    /\ blk_last.op = "alloc"
    /\ blk_last.ptr = blk.slots[2]
    /\ blk.free_list = NULL

\* C27: for every configuration block_allocator_init accepts, with
\* blocks_per_chunk = 0 among them, block_alloc returns NULL or a block that
\* was on the free list (after the growth, when it grew); it never reads
\* the next field of a NULL list head.
C27_NoPopFromEmpty ==
    [][blk_last'.op = "alloc" =>
          /\ ~blk_last'.null_read
          /\ blk_state' = "ready"
          /\ \/ blk_last'.ptr = NULL
             \/ ~blk_last'.grew /\ blk_last'.ptr = blk.free_list
             \/ blk_last'.grew /\ blk_last'.ptr \in BlockAll']_vars

\* C21: block_free of a block that is on the free list is carried out like
\* any other: the block becomes the head and its next field the old head, so
\* that the list reaches the block a second time; the block_alloc calls that
\* follow are all served from the list without growth, and the one that
\* reaches the block again returns it while the caller of an earlier call
\* still holds it.
C21_DoubleFreeCorrupts ==
    [][/\ (blk_last'.op = "free" /\ blk_last'.ptr # NULL
            /\ BlockOccurrences(blk_last'.ptr) >= 1) =>
             /\ blk_state' = "ready"
             /\ blk'.free_list = blk_last'.ptr
             /\ blk_mem'[blk_last'.ptr] = blk.free_list
             /\ BlockOccurrences(blk_last.ptr)' >= 2
             /\ blk'.chunk_count = blk.chunk_count
       /\ (blk_last'.op = "alloc" /\ blk_hist.due > 0) =>
             /\ blk_last'.ptr # NULL
             /\ ~blk_last'.grew
             /\ BlockOccurrences(blk_last'.ptr) >= 1
             /\ blk_hist.due = 1 =>
                   /\ blk_last'.ptr = blk_hist.twice
                   /\ blk_last'.was_held]_vars

\* a block was given back twice in a row behind another one, and the third
\* call after that has handed it out a second time
C21_Witness ==
    /\ blk_state = "ready"
    /\ blk_hist.twice # NULL
    /\ blk_hist.due = 0
    /\ blk_hist.frees = 2
    /\ blk_last.op = "alloc"
    /\ blk_last.ptr = blk_hist.twice
    /\ blk_last.was_held
    /\ Cardinality(blk_held) < blk_hist.ok - 1
    /\ BlockOccurrences(blk_last.ptr) >= 1

(***************************************************************************)
(* Claims: tracking memory manager                                         *)
(***************************************************************************)
\* the records of the outstanding list: size and line of each header
OutstandingRecords ==
    [i \in 1..Len(Outstanding) |->
        [ptr |-> Outstanding[i] + SIZEOF_HEADER,
         size |-> mm_mem[Outstanding[i]].size,
         line |-> mm_mem[Outstanding[i]].line]]

\* what a step leaves alone when it releases nothing and keeps the list
TrackUntouched ==
    /\ mm_sys' = mm_sys
    /\ mm'.tiny_pool = mm.tiny_pool
    /\ mm'.small_pool = mm.small_pool
    /\ mm'.medium_pool = mm.medium_pool
    /\ mm'.allocations = mm.allocations
    /\ mm'.allocation_count = mm.allocation_count
    /\ mm'.total_allocated = mm.total_allocated
    /\ Outstanding' = Outstanding
    /\ OutstandingRecords' = OutstandingRecords

\* C7: after N successful memory_alloc calls and M < N memory_free calls on
\* distinct live pointers, in any order, with no header overwritten, the
\* outstanding list holds exactly N - M records, one per pointer not yet
\* freed, each with the size and line of its own memory_alloc call, and
\* this is the list memory_print_report prints.
C7_LeakAccounting ==
    (mm_state = "ready" /\ mm_hist.overwrites = 0) =>
        /\ Len(Outstanding) = mm_hist.allocs - mm_hist.frees
        /\ mm.allocation_count = mm_hist.allocs - mm_hist.frees
        /\ Cardinality(mm_live) = mm_hist.allocs - mm_hist.frees
        /\ {OutstandingRecords[i] : i \in 1..Len(Outstanding)} = mm_live
        /\ mm_out.kind = "report" =>
              mm_out.leaks = [i \in 1..Len(Outstanding) |->
                                [size |-> OutstandingRecords[i].size,
                                 line |-> OutstandingRecords[i].line]]

C7_Witness ==
    /\ mm_state = "ready"
    /\ mm_hist.overwrites = 0
    /\ mm_hist.allocs = 3
    /\ mm_hist.frees = 1
    /\ mm_out.kind = "report"
    /\ Len(mm_out.leaks) = 2
    /\ mm_out.leaks[1].size # mm_out.leaks[2].size
    /\ mm_out.leaks[1].line # mm_out.leaks[2].line

\* C8: a memory_free call that finds a magic other than MEMORY_MAGIC in the
\* header reports the error with the line of the original allocation, passes
\* nothing to free(), marks no pool slot unused, and leaves the outstanding
\* list, allocation_count and total_allocated as they were.
C8_RejectedFree ==
    [][(/\ mm_last'.op = "free"
        /\ mm_last'.ptr # NULL
        /\ mm_last'.owned
        /\ mm'.free_calls = mm.free_calls + 1
        /\ mm_last'.magic # MEMORY_MAGIC)
       => (/\ TrackUntouched
           /\ mm_out'.kind = "free_error"
           /\ mm_out'.line = mm_mem[mm_last'.ptr - SIZEOF_HEADER].line
           /\ mm_last'.ptr \in LivePtrs =>
                 \E i \in 1..Len(Outstanding') :
                    OutstandingRecords'[i] \in mm_live
                    /\ OutstandingRecords'[i].ptr = mm_last'.ptr)]_vars

C8_Witness ==
    /\ mm_last.op = "free"
    /\ mm_last.ptr # NULL
    /\ ~mm_last.stale
    /\ mm_last.magic # MEMORY_MAGIC
    /\ mm_out.kind = "free_error"
    /\ mm_hist.overwrites > 0
    /\ Len(Outstanding) = 2
    /\ Outstanding[2] = mm_last.ptr - SIZEOF_HEADER

\* C9: a second memory_free(p) after a successful memory_free(p), with no
\* memory_alloc in between, is rejected and changes neither the outstanding
\* list, allocation_count, total_allocated nor any pool used-flag.
C9_SecondFreeRejected ==
    [][(/\ mm_last'.op = "free"
        /\ mm_last'.ptr # NULL
        /\ mm_last'.stale
        /\ mm'.free_calls = mm.free_calls + 1)
       => (/\ TrackUntouched
           /\ mm_out'.kind = "free_error")]_vars

\* the same for a block that is in a pool, whose memory the manager still
\* owns at the second call
C9_SecondFreeOfPoolBlock ==
    [][(/\ mm_last'.op = "free"
        /\ mm_last'.ptr # NULL
        /\ mm_last'.stale
        /\ mm_last'.owned
        /\ mm'.free_calls = mm.free_calls + 1)
       => (/\ TrackUntouched
           /\ mm_last'.magic = 0
           /\ mm_out'.kind = "free_error")]_vars

C9_PoolBlockWitness ==
    /\ mm_last.op = "free"
    /\ mm_last.stale
    /\ mm_last.owned
    /\ mm_out.kind = "free_error"

\* C10: in every state reached from memory_manager_init by memory_alloc,
\* memory_free (rejected ones too) and memory_manager_cleanup,
\* memory_check_leaks is true exactly when the outstanding list is not
\* empty, and allocation_count is the number of records linked from
\* g_memory_manager.allocations.
C10_CheckLeaks ==
    /\ memory_check_leaks(mm) <=> (Outstanding # <<>>)
    /\ memory_check_leaks(mm) <=> (mm.allocations # NULL)
    /\ mm.allocation_count = Len(Outstanding)
    /\ mm_last.op = "cleanup" =>
          (mm_out.kind = "report" <=> mm_last.ptr # NULL)

C10_Witness ==
    /\ memory_check_leaks(mm)
    /\ mm.malloc_calls = 3
    /\ mm.free_calls = 2
    /\ mm_hist.frees = 2
    /\ mm_hist.overwrites > 0
    /\ mm_last.op = "free"
    /\ mm_last.magic = MEMORY_MAGIC
    /\ Len(Outstanding) = 2
    /\ Cardinality(mm_live) = 1

\* C18: a memory_alloc call that returns NULL, the system allocator having
\* given NULL for the new pool block if one was asked for and for the
\* fallback malloc, leaves the outstanding list, allocation_count,
\* total_allocated, peak_allocated and every pool's count, blocks and
\* used-flags as they were.
C18_AllocFailureFrame ==
    [][(/\ mm_last'.op = "alloc"
        /\ mm_last'.ptr = NULL
        /\ mm'.malloc_calls = mm.malloc_calls + 1)
       => (/\ TrackUntouched
           /\ mm'.peak_allocated = mm.peak_allocated
           /\ mm'.pool_hits = mm.pool_hits
           /\ mm_mem' = mm_mem
           /\ mm_live' = mm_live)]_vars

\* a refused call while two allocations are outstanding, one of them in a
\* pool
C18_Witness ==
    /\ mm_state = "ready"
    /\ mm_last.op = "alloc"
    /\ mm_last.ptr = NULL
    /\ mm.malloc_calls = 3
    /\ Len(Outstanding) = 2
    /\ mm.small_pool.count + mm.medium_pool.count >= 1
    /\ mm.peak_allocated = mm.total_allocated

\* C20: once memory_free(p) has succeeded, a later memory_free(p) by a
\* caller that was not given p again is rejected, whatever memory_alloc and
\* memory_free calls came in between: it reads a magic other than
\* MEMORY_MAGIC, reports the error, and every allocation a caller still
\* holds stays in the outstanding list with its pool slot in use.
C20_StaleFreeAcrossReuse ==
    [][(/\ mm_last'.op = "free"
        /\ mm_last'.ptr # NULL
        /\ mm_last'.stale
        /\ mm'.free_calls = mm.free_calls + 1)
       => (/\ mm_last'.magic # MEMORY_MAGIC
           /\ mm_out'.kind = "free_error"
           /\ mm'.small_pool.used = mm.small_pool.used
           /\ mm'.medium_pool.used = mm.medium_pool.used
           /\ mm_sys' = mm_sys
           /\ \A l \in {x \in mm_live :
                          \E i \in 1..Len(Outstanding) :
                             OutstandingRecords[i] = x} :
                 \E i \in 1..Len(Outstanding') :
                    OutstandingRecords'[i] = l)]_vars

\* the outstanding list is a doubly linked list without a cycle, headed by
\* g_memory_manager.allocations, of headers that carry the magic
ListWellFormed ==
    LET n == Len(Outstanding) IN
    /\ n <= Cardinality(HeapAddrs)
    /\ Cardinality({Outstanding[i] : i \in 1..n}) = n
    /\ (n = 0) <=> (mm.allocations = NULL)
    /\ n > 0 =>
          /\ Outstanding[1] = mm.allocations
          /\ mm_mem[Outstanding[1]].prev = NULL
          /\ mm_mem[Outstanding[n]].next = NULL
    /\ \A i \in 1..n : mm_mem[Outstanding[i]].magic = MEMORY_MAGIC
    /\ \A i \in 1..(n - 1) :
          /\ mm_mem[Outstanding[i]].next = Outstanding[i + 1]
          /\ mm_mem[Outstanding[i + 1]].prev = Outstanding[i]

ListWithout(list, header) == SelectSeq(list, LAMBDA h : h # header)

\* C26: under memory_alloc and memory_free of valid pointers the list from
\* g_memory_manager.allocations has no cycle, its head has prev = NULL,
\* x->next->prev == x for every record with a successor, every record has
\* magic == MEMORY_MAGIC; memory_alloc links the new record in front, and a
\* successful memory_free takes out the addressed record and leaves the
\* others in their order.
C26_ListWellFormed ==
    [][/\ ListWellFormed'
       /\ (/\ mm_last'.op = "alloc"
           /\ mm_last'.ptr # NULL
           /\ mm'.malloc_calls = mm.malloc_calls + 1) =>
             Outstanding' = <<mm_last'.ptr - SIZEOF_HEADER>> \o Outstanding
       /\ (/\ mm_last'.op = "free"
           /\ mm_last'.ptr # NULL
           /\ mm'.free_calls = mm.free_calls + 1) =>
             /\ mm_last'.magic = MEMORY_MAGIC
             /\ Len(Outstanding') = Len(Outstanding) - 1
             /\ Outstanding' =
                   ListWithout(Outstanding, mm_last'.ptr - SIZEOF_HEADER)]_vars

\* the middle one of three records has been freed
C26_Witness ==
    /\ mm_state = "ready"
    /\ mm_last.op = "free"
    /\ mm_last.magic = MEMORY_MAGIC
    /\ mm.malloc_calls = 3
    /\ Len(Outstanding) = 2
    /\ mm_mem[mm_last.ptr - SIZEOF_HEADER].next = Outstanding[2]
    /\ mm_mem[mm_last.ptr - SIZEOF_HEADER].prev = Outstanding[1]

PoolFields == {"tiny_pool", "small_pool", "medium_pool"}

\* the blocks a manager's pools hold
PoolBlocks(m) ==
    UNION {{m[f].blocks[i] : i \in 1..m[f].count} : f \in PoolFields}

\* the records of the outstanding list whose header is the block
BackedBy(block) ==
    Cardinality({k \in 1..Len(Outstanding) : Outstanding[k] = block})

\* every pool within its limit, its blocks distinct from one another and
\* from the blocks of the other pools, a slot in use exactly when its block
\* is the header of one outstanding record
PoolsConsistent ==
    /\ \A f \in PoolFields :
          /\ mm[f].count <= MAX_BLOCKS_PER_POOL
          /\ \A i \in 1..mm[f].count :
                /\ mm[f].blocks[i] \in mm_sys
                /\ mm[f].used[i] <=> BackedBy(mm[f].blocks[i]) = 1
                /\ BackedBy(mm[f].blocks[i]) <= 1
    /\ Cardinality(PoolBlocks(mm)) =
          mm.tiny_pool.count + mm.small_pool.count + mm.medium_pool.count
    /\ \A k \in 1..Len(Outstanding) : BackedBy(Outstanding[k]) = 1

\* C28: under memory_alloc and memory_free of live pointers each pool has
\* count <= MAX_BLOCKS_PER_POOL, a pool slot is marked used exactly when its
\* block backs one outstanding record, no block backs two records; the
\* memory_free of an allocation that malloc served because its pool was
\* full passes the block to free() and leaves every pool as it was, and the
\* memory_free of a pool block releases nothing.
C28_PoolConsistency ==
    [][/\ PoolsConsistent'
       /\ (/\ mm_last'.op = "free"
           /\ mm_last'.ptr # NULL
           /\ mm'.free_calls = mm.free_calls + 1) =>
             LET header == mm_last'.ptr - SIZEOF_HEADER IN
             IF header \in PoolBlocks(mm)
             THEN /\ mm_sys' = mm_sys
                  /\ PoolBlocks(mm') = PoolBlocks(mm)
             ELSE /\ header \in mm_sys
                  /\ mm_sys' = mm_sys \ {header}
                  /\ \A f \in PoolFields : mm'[f] = mm[f]]_vars

\* the small pool was full when a second small request came; malloc served
\* it, and it has been freed while the pool's slot is still in use
C28_Witness ==
    /\ mm_state = "ready"
    /\ mm.small_pool.count = MAX_BLOCKS_PER_POOL
    /\ \A i \in 1..MAX_BLOCKS_PER_POOL : mm.small_pool.used[i]
    /\ mm_last.op = "free"
    /\ mm_last.magic = MEMORY_MAGIC
    /\ (mm_last.ptr - SIZEOF_HEADER) \notin mm_sys
    /\ mm_mem[mm_last.ptr - SIZEOF_HEADER].next = mm.small_pool.blocks[1]
    /\ get_block_category(mm_mem[mm_last.ptr - SIZEOF_HEADER].size
                          + SIZEOF_HEADER) = "BLOCK_SMALL"

\* the sum of the size fields of the records in the outstanding list
RECURSIVE bytes_from(_, _, _)
bytes_from(mem, current, fuel) ==
    IF current = NULL \/ fuel = 0 \/ current \notin DOMAIN mem THEN 0
    ELSE mem[current].size + bytes_from(mem, mem[current].next, fuel - 1)

OutstandingBytes ==
    bytes_from(mm_mem, mm.allocations, Cardinality(HeapAddrs) + 1)

\* C29: total_allocated is the sum of the sizes of the records in the
\* outstanding list, peak_allocated >= total_allocated, peak_allocated does
\* not decrease between memory_manager_init and memory_manager_cleanup, and
\* a rejected memory_free changes neither of them nor the sum.
C29_UsageStatistics ==
    [][/\ mm_state' = "ready" =>
             /\ mm'.total_allocated = OutstandingBytes'
             /\ mm'.peak_allocated >= mm'.total_allocated
       /\ (mm_state = "ready" /\ mm_state' = "ready") =>
             mm'.peak_allocated >= mm.peak_allocated
       /\ (/\ mm_last'.op = "free"
           /\ mm_last'.ptr # NULL
           /\ mm'.free_calls = mm.free_calls + 1
           /\ mm_last'.magic # MEMORY_MAGIC) =>
             /\ mm'.total_allocated = mm.total_allocated
             /\ mm'.peak_allocated = mm.peak_allocated
             /\ OutstandingBytes' = OutstandingBytes]_vars

\* the peak stands above the current usage after a free, and a free has
\* been rejected
C29_Witness ==
    /\ mm_state = "ready"
    /\ mm.peak_allocated = 4170
    /\ mm.total_allocated = 4010
    /\ Len(Outstanding) = 2
    /\ mm_last.op = "free"
    /\ mm_last.magic # MEMORY_MAGIC
    /\ mm_out.kind = "free_error"

\* C30: memory_manager_cleanup prints the leak report exactly when records
\* are outstanding, passes every pool block, used or not, to free() once,
\* and leaves an empty list and all counters zero, so that
\* memory_check_leaks is false; no other operation releases a pool block.
C30_Teardown ==
    [][/\ (mm_state = "ready" /\ mm_last'.op = "cleanup") =>
             /\ (mm_out'.kind = "report") <=> (Outstanding # <<>>)
             /\ mm_out'.kind = "report" =>
                   mm_out'.leaks = [i \in 1..Len(Outstanding) |->
                                     [size |-> OutstandingRecords[i].size,
                                      line |-> OutstandingRecords[i].line]]
             /\ PoolBlocks(mm) \subseteq mm_sys
             /\ Cardinality(PoolBlocks(mm)) =
                   mm.tiny_pool.count + mm.small_pool.count
                   + mm.medium_pool.count
             /\ mm_sys' = mm_sys \ PoolBlocks(mm)
             /\ mm' = ZeroManager
             /\ Outstanding' = <<>>
             /\ ~memory_check_leaks(mm')
       /\ (mm_state = "ready" /\ mm_last'.op # "cleanup") =>
             PoolBlocks(mm) \subseteq mm_sys']_vars

\* a cleanup that printed a leak, released a pool block still marked used
\* and one that was not, and left the block malloc had served behind
C30_Witness ==
    /\ mm_state = "zero"
    /\ mm_last.op = "cleanup"
    /\ mm_out.kind = "report"
    /\ Len(mm_out.leaks) = 2
    /\ Cardinality(mm_sys) = 1
    /\ mm = ZeroManager

====
